---------------------------- MODULE Spec2Model ----------------------------
(***************************************************************************)
(* Session orchestration engine of the agentic honeypot:                   *)
(*   core/state.py        the in-memory session store                      *)
(*   agent/controller.py  handle_agent, should_stop_extraction,            *)
(*                        generate_reply, send_final_callback              *)
(*   agent/probing_agent.py, agent/extraction_agent.py, detection/intent.py*)
(* Python objects are modelled as a heap: _sessions maps a session id to   *)
(* the index of a session object, and a running call keeps the references  *)
(* it obtained from get_session in its frame.  Calls run in threads that   *)
(* share the store; the interpreter can switch threads after any call and  *)
(* at any loop edge, so a step of a thread is one access to a shared       *)
(* object (_sessions, a session object, the clock, the network) together   *)
(* with the statements on locals that follow it.                           *)
(***************************************************************************)
EXTENDS Integers, Sequences, FiniteSets, TLC

(***************************************************************************)
(* Bounds of the model.                                                    *)
(***************************************************************************)
MaxCalls == 2       \* handle_agent calls in a behaviour of Spec
MaxLongCalls == 8   \* handle_agent calls in a behaviour of SpecLong
MaxRaceCalls == 3   \* handle_agent calls in a behaviour of SpecRace
MaxStoreOps == 2    \* calls in a behaviour of SpecStore
MaxClock == 1       \* values of the wall clock (utcnow) beyond the first
MaxTotalMsgs == 15  \* largest total_msgs handed to should_stop_extraction

(***************************************************************************)
(* Program constants.                                                      *)
(***************************************************************************)
ContinueCeiling == 8     \* controller.py:126
StopCeiling == 14        \* controller.py:83
GoalContext == 5         \* controller.py:150
FallbackContext == 3     \* controller.py:161
ScamThreshold == 70      \* intent.py:156, confidence in hundredths

SessionIds == {"s1", "s2"}
Threads == {"t1", "t2"}

None == "None"

(***************************************************************************)
(* Message texts.  A text is a lower-case string; Words is text.split().   *)
(***************************************************************************)
Texts ==
    { "hello",
      "urgent blocked verify otp bank",
      "today suspended login otp bank",
      "pay abc@paytm",
      "call 9876543210",
      "pay abc@paytm call 9876543210" }

Words(text) ==
    CASE text = "hello" -> <<"hello">>
      [] text = "urgent blocked verify otp bank" ->
             <<"urgent", "blocked", "verify", "otp", "bank">>
      [] text = "today suspended login otp bank" ->
             <<"today", "suspended", "login", "otp", "bank">>
      [] text = "pay abc@paytm" -> <<"pay", "abc@paytm">>
      [] text = "call 9876543210" -> <<"call", "9876543210">>
      [] text = "pay abc@paytm call 9876543210" ->
             <<"pay", "abc@paytm", "call", "9876543210">>
      [] text = "now now now now now now now now now now" ->
             <<"now", "now", "now", "now", "now", "now", "now", "now", "now",
               "now">>
      [] OTHER -> <<>>

\* k in w, for a keyword k and a word w of the texts above
Substring(k, w) == k = w \/ <<k, w>> \in {<<"pay", "abc@paytm">>}

\* k in text (no keyword with a blank occurs in the texts above)
Contains(text, k) ==
    \E i \in 1..Len(Words(text)) : Substring(k, Words(text)[i])

AnyIn(list, text) == \E j \in 1..Len(list) : Contains(text, list[j])

Range(s) == {s[i] : i \in 1..Len(s)}

\* The orders in which a set can be iterated: Python fixes none, it varies
\* with the hash seed of the process and with the history of the set.
RECURSIVE Orders(_)
Orders(S) ==
    IF S = {} THEN {<<>>}
    ELSE UNION {{<<x>> \o o : o \in Orders(S \ {x})} : x \in S}

\* the one order of a set of at most one element (no other set has just one)
SingleOrder(S) == CHOOSE o \in Orders(S) : Cardinality(S) <= 1

\* list(S), for a set the interpreter iterates in the order `order`
SetToSeq(S, order) == SelectSeq(order, LAMBDA x : x \in S)

Last(s, n) == SubSeq(s, IF Len(s) > n THEN Len(s) - n + 1 ELSE 1, Len(s))

(***************************************************************************)
(* detection/intent.py                                                     *)
(***************************************************************************)
URGENCY_KEYWORDS ==
    <<"immediately", "urgent", "today", "now", "within", "24 hours",
      "limited time">>
THREAT_KEYWORDS ==
    <<"blocked", "suspended", "terminated", "legal action", "penalty",
      "frozen">>
ACTION_KEYWORDS ==
    <<"verify", "click", "login", "pay", "transfer", "update", "confirm">>
AUTHORITY_KEYWORDS ==
    <<"bank", "government", "support", "customer care", "admin", "official">>
SENSITIVE_INFO_KEYWORDS ==
    <<"otp", "pin", "password", "cvv", "account number", "upi">>
SUSPICIOUS_TLDS == <<".xyz", ".top", ".info", ".click", ".link">>
URL_SHORTENERS == <<"bit.ly", "tinyurl", "goo.gl", "t.co">>

\* re.findall(r'(https?://[^\s]+)', text.lower())
extract_urls(text) ==
    SelectSeq(Words(text), LAMBDA w : w \in {"http://bit.ly/abc"})

\* text.isupper(), "!!!" / "???" in text, or fewer than 5 words and urgent
has_grammar_anomaly(text) ==
    \/ text \in {}
    \/ Contains(text, "!!!") \/ Contains(text, "???")
    \/ Len(Words(text)) < 5 /\ AnyIn(URGENCY_KEYWORDS, text)

suspicious_url(text) ==
    \E i \in 1..Len(extract_urls(text)) :
        \/ \E j \in 1..Len(SUSPICIOUS_TLDS) :
              Substring(SUSPICIOUS_TLDS[j], extract_urls(text)[i])
        \/ \E j \in 1..Len(URL_SHORTENERS) :
              Substring(URL_SHORTENERS[j], extract_urls(text)[i])

signal_table(text) ==
    << <<"urgency", 15, AnyIn(URGENCY_KEYWORDS, text)>>,
       <<"threat", 15, AnyIn(THREAT_KEYWORDS, text)>>,
       <<"action_request", 15, AnyIn(ACTION_KEYWORDS, text)>>,
       <<"authority_impersonation", 10, AnyIn(AUTHORITY_KEYWORDS, text)>>,
       <<"sensitive_info_request", 15, AnyIn(SENSITIVE_INFO_KEYWORDS, text)>>,
       <<"suspicious_url", 15, suspicious_url(text)>>,
       <<"grammar_anomaly", 10, has_grammar_anomaly(text)>> >>

RECURSIVE SumFired(_)
SumFired(t) ==
    IF t = <<>> THEN 0
    ELSE (IF t[1][3] THEN t[1][2] ELSE 0) + SumFired(Tail(t))

\* the rule-based confidence (hundredths), capped at 1.0
lexical_confidence(text) ==
    LET c == SumFired(signal_table(text)) IN IF c > 100 THEN 100 ELSE c

intent_decision(confidence) ==
    IF confidence >= ScamThreshold THEN "scam" ELSE "safe"

\* len(re.findall(r'\b(urgent|immediately|now|today)\b', text.lower()))
urgency_patterns(text) ==
    Len(SelectSeq(Words(text),
                  LAMBDA w : w \in {"urgent", "immediately", "now", "today"}))

\* 1 if 20 < len(text) < 200 else 0
msg_length_score(text) == IF 20 < Len(text) /\ Len(text) < 200 THEN 1 ELSE 0

\* vectorizer.fit / clf.fit on the eight training texts and
\* clf.predict_proba(vectorizer.transform([text_lower]))[0][1]: the
\* probability of the scam class the fitted classifier (TF-IDF of the words
\* of two letters and more, L2-normalised; logistic regression with C = 1)
\* gives the text, in millionths.  A text without a word of the training
\* texts gets the probability of the intercept.
predict_proba(text) ==
    CASE text = "hello" -> 443352
      [] text = "urgent blocked verify otp bank" -> 593356
      [] text = "today suspended login otp bank" -> 560728
      [] text = "now now now now now now now now now now" -> 536292
      [] OTHER -> 492518

\* round(x, 2) of a value given in ten-millionths, as hundredths
Round2(x) == (x + 50000) \div 100000

\* confidence * 0.4 + ml_score * 0.4 + urgency_patterns * 0.1
\* + msg_length_score * 0.1, in ten-millionths (confidence is in
\* hundredths, ml_score in millionths)
final_score(text, ml_score) ==
    lexical_confidence(text) * 40000 + ml_score * 4
        + urgency_patterns(text) * 1000000 + msg_length_score(text) * 1000000

detect_intent(text) ==
    LET ml_score == predict_proba(text)
    IN [ decision |-> intent_decision(lexical_confidence(text)),
         confidence |-> Round2(final_score(text, ml_score)),
         signals |-> LET f == SelectSeq(signal_table(text), LAMBDA e : e[3])
                     IN [i \in 1..Len(f) |-> f[i][1]] ]

(***************************************************************************)
(* agent/extraction_agent.py.  An extraction result is a dict: a function  *)
(* from the keys present to values [list |-> TRUE, items |-> <<...>>].     *)
(* Where the extractor turns a set into a list, the texts of the model give *)
(* it a set of at most one element, whose list has one order.              *)
(***************************************************************************)
KNOWN_BANK_BRANDS == <<"sbi", "hdfc", "icici", "axis", "kotak", "pnb", "canara">>
COMMON_UPI_PROVIDERS == <<"paytm", "phonepe", "googlepay", "gpay", "bhim">>
SUSPICIOUS_TERMS ==
    <<"urgent", "verify", "blocked", "immediately", "suspension", "penalty",
      "freeze", "debit", "credit", "charge", "security">>
THREAT_PATTERNS ==
    << <<"account_blocked", <<"blocked", "suspended", "freeze">> >>,
       <<"legal_threat", <<"legal", "court", "penalty", "case">> >>,
       <<"payment_pressure", <<"pay", "immediately", "today">> >> >>
IMPERSONATION_TERMS ==
    <<"bank", "rbi", "government", "kyc", "customer care", "support",
      "income tax">>

ListOf(items) == [list |-> TRUE, items |-> items]
Scalar(v) == [list |-> FALSE, items |-> <<v>>]

\* words matched by the UPI patterns, the phone pattern, the account pattern
upi_matches(text) == SelectSeq(Words(text), LAMBDA w : w \in {"abc@paytm"})
phone_matches(text) == SelectSeq(Words(text), LAMBDA w : w \in {"9876543210"})
bank_matches(text) == SelectSeq(Words(text), LAMBDA w : w \in {})
amount_matches(text) == SelectSeq(Words(text), LAMBDA w : w \in {})
\* tokens spaCy marks like_url (the regex alternative returns its empty group)
url_tokens(text) ==
    SelectSeq(Words(text), LAMBDA w : w \in {"http://bit.ly/abc"})

\* the part of a UPI id after "@", the network location of a link
upi_handle(upi) == CASE upi = "abc@paytm" -> "paytm" [] OTHER -> ""
netloc(url) == CASE url = "http://bit.ly/abc" -> "bit.ly" [] OTHER -> ""

NonEmpty(d) ==
    LET keep == {k \in DOMAIN d : d[k].items # <<>>} IN [k \in keep |-> d[k]]

extract_intel(text) ==
    NonEmpty(
      [ bankAccounts |-> ListOf(bank_matches(text)),
        upiIds |-> ListOf(LET S == Range(upi_matches(text))
                          IN SetToSeq(S, SingleOrder(S))),
        phishingLinks |-> ListOf(LET S == Range(url_tokens(text))
                                 IN SetToSeq(S, SingleOrder(S))),
        phoneNumbers |-> ListOf(phone_matches(text)),
        amounts |-> ListOf(LET S == Range(amount_matches(text))
                           IN SetToSeq(S, SingleOrder(S))),
        suspiciousKeywords |->
            ListOf(SelectSeq(SUSPICIOUS_TERMS, LAMBDA k : Contains(text, k))),
        threatTypes |->
            ListOf(LET f == SelectSeq(THREAT_PATTERNS,
                                      LAMBDA p : AnyIn(p[2], text))
                   IN [i \in 1..Len(f) |-> f[i][1]]),
        impersonatedEntities |->
            ListOf(SelectSeq(IMPERSONATION_TERMS,
                             LAMBDA k : Contains(text, k))) ])

enrich_domains(urls) ==
    [ domains |-> ListOf(LET S == {netloc(u) : u \in Range(urls)}
                         IN SetToSeq(S, SingleOrder(S))),
      domainImpersonation |-> ListOf(<<>>) ]

enrich_upi(upi_ids) ==
    [ upiProviders |-> ListOf(LET S == {upi_handle(u) : u \in Range(upi_ids)}
                              IN SetToSeq(S, SingleOrder(S))),
      upiImpersonation |-> ListOf(<<>>) ]

\* {**a, **b}
DictUpdate(a, b) ==
    [k \in DOMAIN a \cup DOMAIN b |-> IF k \in DOMAIN b THEN b[k] ELSE a[k]]

EmptyDict == [k \in {} |-> ListOf(<<>>)]

extract_and_enrich(text) ==
    LET raw == extract_intel(text)
        e1 == IF "phishingLinks" \in DOMAIN raw
              THEN enrich_domains(raw["phishingLinks"].items) ELSE EmptyDict
        e2 == IF "upiIds" \in DOMAIN raw
              THEN DictUpdate(e1, enrich_upi(raw["upiIds"].items)) ELSE e1
    IN DictUpdate(raw, e2)

\* re.search(r'\b(pay|send|transfer|deposit|...)\b', text.lower())
payment_requested(text) ==
    \E i \in 1..Len(Words(text)) :
        Words(text)[i] \in {"pay", "send", "transfer", "deposit", "rupees", "inr"}

\* the keys extract_intel, enrich_domains and enrich_upi put in their results
ExtractorKeys ==
    {"bankAccounts", "upiIds", "phishingLinks", "phoneNumbers", "amounts",
     "suspiciousKeywords", "threatTypes", "impersonatedEntities", "domains",
     "domainImpersonation", "upiProviders", "upiImpersonation"}

\* The three analyses of a message text, evaluated once per text.  Of the
\* result of detect_intent handle_agent reads the decision.
TextAnalysis ==
    [ text \in Texts |->
        [ decision |-> detect_intent(text).decision,
          extracted |-> extract_and_enrich(text),
          payment_requested |-> payment_requested(text) ] ]

(***************************************************************************)
(* agent/probing_agent.py                                                  *)
(***************************************************************************)
\* intels.get(key): falsy when the key is missing or its set is empty
Truthy(intels, key) == key \in DOMAIN intels /\ intels[key] # {}

\* What the tests of select_next_goal find, one field per intels.get(...):
\* upiIds and bankAccounts at line 27, upiIds and phoneNumbers at line 31,
\* upiIds at line 35.  A test the short-circuit skips finds nothing.
NoGoalReads ==
    [upi27 |-> FALSE, bank27 |-> FALSE, upi31 |-> FALSE, phone31 |-> FALSE,
     upi35 |-> FALSE]

\* the five tests on a dict that no one changes meanwhile
GoalReads(intels) ==
    [upi27 |-> Truthy(intels, "upiIds"),
     bank27 |-> Truthy(intels, "bankAccounts"),
     upi31 |-> Truthy(intels, "upiIds"),
     phone31 |-> Truthy(intels, "phoneNumbers"),
     upi35 |-> Truthy(intels, "upiIds")]

\* faulty variant: confirm_details is tried before ask_for_phone
goal_of_confirm_first(reads, payment) ==
    IF payment /\ ~reads.upi27 /\ ~reads.bank27 THEN "ask_for_payment"
    ELSE IF reads.upi35 THEN "confirm_details"
    ELSE IF reads.upi31 /\ ~reads.phone31 THEN "ask_for_phone"
    ELSE "keep_engaged"

\* lines 27-39: the goal the tests lead to
goal_of(reads, payment) ==
    IF payment /\ ~reads.upi27 /\ ~reads.bank27 THEN "ask_for_payment"
    ELSE IF reads.upi31 /\ ~reads.phone31 THEN "ask_for_phone"
    ELSE IF reads.upi35 THEN "confirm_details"
    ELSE "keep_engaged"

select_next_goal(intels, payment) == goal_of(GoalReads(intels), payment)

\* the prompt is the goal's template around the context
build_goal_prompt(goal, context) ==
    [ template |-> IF goal \in {"ask_for_phone", "ask_for_payment",
                                "ask_for_alternate_payment", "confirm_details"}
                   THEN goal ELSE "keep_engaged",
      context |-> context ]

(***************************************************************************)
(* core/state.py.  A world W is the part of the process the threads share: *)
(* W.sessions is _sessions (0 where the id is missing), W.heap the session *)
(* objects ever created, W.posted the reports handed to requests.post.     *)
(***************************************************************************)
\* the keys of a new session's "intels", in the order the dict holds them
IntelKeyOrder ==
    <<"bankAccounts", "upiIds", "phishingLinks", "phoneNumbers",
      "suspiciousKeywords">>
IntelKeys == Range(IntelKeyOrder)

NewSession(now) ==
    [ messages |-> <<>>,
      intels |-> [k \in IntelKeys |-> {}],
      current_goal |-> None,
      goals_completed |-> {},
      total_messages |-> 0,
      callback_sent |-> FALSE,
      created_at |-> now ]

\* _sessions.get(session_id); 0 is None
get_session(W, sid) == W.sessions[sid]

\* faulty variant: the membership test never finds the id
session_missing_always(W, sid) == TRUE

\* line 29: session_id not in _sessions
session_missing(W, sid) == W.sessions[sid] = 0

\* line 30: _sessions[session_id] = {...}, the dict built at lines 30-53
\* with the clock as utcnow read it at line 52
store_new_session(W, sid, created) ==
    [ sessions |-> [W.sessions EXCEPT ![sid] = Len(W.heap) + 1],
      heap |-> Append(W.heap, NewSession(created)),
      posted |-> W.posted ]

\* line 88: session["total_messages"] += 1 on the object s; the interpreter
\* of this build (CPython 3.11) runs the load, the add and the store of
\* the statement without a switch of threads
add_one(W, s) == [W EXCEPT !.heap[s].total_messages = @ + 1]

\* "not values": a missing key, an empty list or an empty string
Falsy(extracted, key) ==
    \/ key \notin DOMAIN extracted
    \/ extracted[key].list /\ extracted[key].items = <<>>
    \/ ~extracted[key].list /\ extracted[key].items[1] = ""

\* faulty variant: the category is assigned instead of united
merged_values_assign(old, extracted, key) ==
    IF Falsy(extracted, key) THEN old
    ELSE IF extracted[key].list THEN Range(extracted[key].items)
    ELSE {extracted[key].items[1]}

\* set.update(values) for a list, set.add(values) otherwise
merged_values(old, extracted, key) ==
    IF Falsy(extracted, key) THEN old
    ELSE IF extracted[key].list THEN old \cup Range(extracted[key].items)
    ELSE old \cup {extracted[key].items[1]}

\* line 100: the keys "for key in session['intels']" goes through, in order
intel_keys(W, s) ==
    SelectSeq(IntelKeyOrder, LAMBDA k : k \in DOMAIN W.heap[s].intels)

\* lines 101-103: the rounds of the loop that get past "if not values"
keys_to_merge(W, s, extracted) ==
    SelectSeq(intel_keys(W, s), LAMBDA k : ~Falsy(extracted, k))

\* lines 105-108: one round of the loop, on the session object s
merge_key(W, s, extracted, key) ==
    [W EXCEPT !.heap[s].intels[key] = merged_values(@, extracted, key)]

RECURSIVE merge_loop(_, _, _, _)
merge_loop(W, s, extracted, keys) ==
    IF keys = <<>> THEN W
    ELSE merge_loop(merge_key(W, s, extracted, Head(keys)), s, extracted,
                    Tail(keys))

\* lines 96-98: the loop is entered with a session and a non-empty result
merge_skipped(s, extracted) == s = 0 \/ DOMAIN extracted = {}

\* merge_intelligence(session_id, extracted) run while no other thread runs
merge_intelligence(W, sid, extracted) ==
    LET s == get_session(W, sid)
    IN IF merge_skipped(s, extracted) THEN W
       ELSE merge_loop(W, s, extracted, keys_to_merge(W, s, extracted))

\* line 75: the values update_session appends to are the message log and
\* the lists it created itself for keys a session did not have
is_list(key) == key = "messages" \/ key \notin DOMAIN NewSession(0)

\* d[key] = value
SetItem(d, key, value) ==
    [k \in DOMAIN d \cup {key} |-> IF k = key THEN value ELSE d[k]]

\* faulty variant: the flag is set in every session object
set_callback_sent_all(W, s) ==
    [W EXCEPT !.heap = [i \in DOMAIN @ |-> [@[i] EXCEPT !.callback_sent = TRUE]]]

\* line 129: session["callback_sent"] = True on the object s
set_callback_sent(W, s) == [W EXCEPT !.heap[s].callback_sent = TRUE]

\* faulty variant: the guard never sees the flag
callback_flag_never(W, s) == FALSE

\* line 134: bool(session and session.get("callback_sent")) for the object s
callback_flag(W, s) == s # 0 /\ W.heap[s].callback_sent

(***************************************************************************)
(* agent/controller.py                                                     *)
(***************************************************************************)
ClosingMessage == "Okay, I will check and get back later."
FallbackLine ==
    "I am very worried now and not understanding. Please tell me clearly what YOU want me to do."
ConfusionLine == "I am little confused, can you explain again?"
AgentNotes ==
    "Scammer used urgency tactics and shared phishing links/UPI IDs"

BLOCKED_REPLY_PATTERNS ==
    <<"customer service", "customer care", "helpline", "support number",
      "official website", "official site", "bank website", "check online",
      "search online", "google", "bank support", "bank help",
      "contact the bank", "reach out to", "you should", "please check",
      "i recommend">>

\* What the completion service does with one request: it raises, or it
\* returns a content string.
GenOutcomes ==
    { [fail |-> FALSE, content |-> "what is this"],
      [fail |-> FALSE, content |-> "Please call Customer Care"],
      [fail |-> FALSE, content |-> " "],
      [fail |-> TRUE, content |-> ""] }

Strip(content) == IF content = " " THEN "" ELSE content
Lower(reply) ==
    CASE reply = "Please call Customer Care" -> "please call customer care"
      [] reply = FallbackLine ->
           "i am very worried now and not understanding. please tell me clearly what you want me to do."
      [] reply = ConfusionLine -> "i am little confused, can you explain again?"
      [] reply = ClosingMessage -> "okay, i will check and get back later."
      [] OTHER -> reply

\* pat in reply_lower, for the contents and the fixed lines above
ReplyContains(reply_lower, pat) ==
    <<reply_lower, pat>> \in {<<"please call customer care", "customer care">>}

\* What the tests of should_stop_extraction find, one field per
\* intels.get(...) of lines 70-75.
NoStopReads ==
    [upi |-> FALSE, bank |-> FALSE, link |-> FALSE, phone |-> FALSE]

\* the four tests on a dict that no one changes meanwhile
StopReads(intels) ==
    [upi |-> Truthy(intels, "upiIds"),
     bank |-> Truthy(intels, "bankAccounts"),
     link |-> Truthy(intels, "phishingLinks"),
     phone |-> Truthy(intels, "phoneNumbers")]

\* faulty variant: the ceiling is compared with > instead of >=
stop_of_above(reads, total_msgs) ==
    \/ (reads.upi \/ reads.bank \/ reads.link) /\ reads.phone
    \/ total_msgs > StopCeiling

\* lines 69-86: the answer the tests lead to
stop_of(reads, total_msgs) ==
    \/ (reads.upi \/ reads.bank \/ reads.link) /\ reads.phone
    \/ total_msgs >= StopCeiling

should_stop_extraction(intels, total_msgs) ==
    stop_of(StopReads(intels), total_msgs)

\* faulty variant: the generated text is returned without the phrase scan
generate_reply_unfiltered(prompt, gen) ==
    IF gen.fail THEN ConfusionLine ELSE Strip(gen.content)

\* faulty variant: a failure of the completion service gives an empty reply
generate_reply_silent(prompt, gen) ==
    IF gen.fail THEN ""
    ELSE LET reply == Strip(gen.content)
         IN IF \E i \in 1..Len(BLOCKED_REPLY_PATTERNS) :
                   ReplyContains(Lower(reply), BLOCKED_REPLY_PATTERNS[i])
            THEN FallbackLine
            ELSE reply

generate_reply(prompt, gen) ==
    IF gen.fail THEN ConfusionLine
    ELSE LET reply == Strip(gen.content)
         IN IF \E i \in 1..Len(BLOCKED_REPLY_PATTERNS) :
                   ReplyContains(Lower(reply), BLOCKED_REPLY_PATTERNS[i])
            THEN FallbackLine
            ELSE reply

\* requests.post raises (post_ok = FALSE) or returns; either way the report
\* was handed to the network once
send_final_callback(W, sid, intel, total_messages, post_ok) ==
    [W EXCEPT !.posted =
        Append(@, [ sessionId |-> sid,
                    scamDetected |-> TRUE,
                    totalMessagesExchanged |-> total_messages,
                    extractedIntelligence |-> intel,
                    agentNotes |-> AgentNotes,
                    delivered |-> post_ok ])]

\* faulty variant: the message budget is compared with < instead of <=
continue_honeypot_below(decision, total_messages) ==
    decision = "scam" \/ total_messages < ContinueCeiling

\* lines 124-127; "or" reads total_messages when the decision is not scam
continue_honeypot(decision, total_messages) ==
    decision = "scam" \/ total_messages <= ContinueCeiling

(***************************************************************************)
(* The frame of a call: the function called (op), its arguments, its local *)
(* variables, and what it has read from the shared objects so far.         *)
(*   session        handle_agent's local `session` (controller.py:93)      *)
(*   tmp            the local `session` of the store function being run    *)
(*   merge_session  the object merge_intelligence worked on                *)
(*   todo           the rounds a loop has still to make                    *)
(*   site           the line a store function was called from              *)
(*   seen           what held for the session when the call came in        *)
(***************************************************************************)
NoGen == [fail |-> FALSE, content |-> ""]
NoPrompt == [template |-> None, context |-> <<>>]
NoAnswer == [gen |-> NoGen, post_ok |-> TRUE, order |-> <<>>]
NothingSeen == [callback_sent |-> FALSE, failed_post |-> FALSE]

IdleFrame ==
    [ op |-> None, sid |-> None, sender |-> None, text |-> "",
      timestamp |-> 0, seen |-> NothingSeen,
      site |-> None, session |-> 0, tmp |-> 0, found |-> FALSE, now |-> 0,
      decision |-> None, extracted |-> EmptyDict, payment |-> FALSE,
      merge_session |-> 0, todo |-> <<>>,
      g |-> NoGoalReads, next_goal |-> None,
      total_126 |-> 0, continuing |-> FALSE, sent_129 |-> FALSE,
      total_133 |-> 0, s |-> NoStopReads, stop |-> FALSE,
      sent_134 |-> FALSE, result |-> <<>>, total_138 |-> 0,
      dispatched |-> FALSE, post_ok |-> TRUE,
      gen |-> NoGen, branch |-> None, prompt |-> NoPrompt, reply |-> None,
      increments |-> 0, status |-> None, updates |-> <<>>,
      has_key |-> FALSE, list_value |-> FALSE ]

\* the intelligence dict of handle_agent's session object
Intels(W, F) == W.heap[F.session].intels

\* session["messages"][-n:]
Context(W, F, n) == Last(W.heap[F.session].messages, n)

At(W, F, p) == [W |-> W, F |-> F, pc |-> p]

\* a store function called on its own returns None
Returns(W, F) == At(W, [F EXCEPT !.status = "returned", !.tmp = 0], "done")

\* an exception leaves the function
Raises(W, F) == At(W, [F EXCEPT !.status = "raised", !.tmp = 0], "done")

\* controller.py:179-182
ReturnReply(W, F) == At(W, [F EXCEPT !.status = "success", !.tmp = 0], "done")

\* controller.py:142-145
ReturnClosing(W, F) ==
    At(W, [F EXCEPT !.branch = "stop", !.reply = ClosingMessage,
                    !.status = "success", !.tmp = 0], "done")

\* after init_session: controller.py:93, or the loop of update_session
AfterInit(W, F) ==
    CASE F.op = "handle_agent" -> At(W, F, "get")
      [] F.op = "update_session" ->
           IF F.todo = <<>> THEN Returns(W, F) ELSE At(W, F, "update_has")
      [] OTHER -> Returns(W, F)

\* controller.py:104-116: the analyses of the text, all on locals
Analysed(F) ==
    [F EXCEPT !.decision = TextAnalysis[F.text].decision,
              !.extracted = TextAnalysis[F.text].extracted,
              !.payment = TextAnalysis[F.text].payment_requested]

\* after increment_message_count: line 104 or line 179
AfterCount(W, F) ==
    CASE F.site = "101" -> At(W, Analysed([F EXCEPT !.tmp = 0]), "merge_get")
      [] F.site = "175" -> ReturnReply(W, F)
      [] OTHER -> Returns(W, F)

\* after merge_intelligence: select_next_goal, whose first test is that of
\* line 27 when a payment was requested and that of line 31 otherwise
AfterMerge(W, F) ==
    IF F.op = "handle_agent"
    THEN At(W, F, IF F.payment THEN "goal_27_upi" ELSE "goal_31_upi")
    ELSE Returns(W, F)

\* select_next_goal has returned; controller.py:124-129 up to the next
\* read: is_callback_sent when the decision is scam, total_messages
\* otherwise
AfterGoal(W, F, reads) ==
    LET G == [F EXCEPT !.g = reads, !.next_goal = goal_of(reads, F.payment)]
    IN IF F.decision = "scam"
       THEN At(W, [G EXCEPT !.continuing = TRUE, !.site = "129"], "sent_get")
       ELSE At(W, G, "decide")

\* after generate_reply: controller.py:169
AfterReply(W, F) ==
    IF F.reply # "" THEN At(W, F, "save_clock") ELSE ReturnReply(W, F)

\* after get_serializable_intelligence: controller.py:138
AfterSerialise(W, F) ==
    IF F.op = "handle_agent" THEN At(W, [F EXCEPT !.tmp = 0], "send_total")
    ELSE Returns(W, F)

\* the next round of the loop of update_session, or its end
NextUpdate(W, F) ==
    IF Tail(F.todo) = <<>> THEN Returns(W, [F EXCEPT !.todo = <<>>])
    ELSE At(W, [F EXCEPT !.todo = Tail(@)], "update_has")

\* One step of the call with frame F at program point pc: the world and
\* the frame after it, and the next program point.  now is the clock, a
\* what the environment answers in this step (the completion service,
\* the network, the order in which the interpreter iterates a set).
Step(pc, W, F, now, a) ==
    CASE pc = "init_check" ->      \* state.py:29
           LET G == [F EXCEPT !.found = ~session_missing(W, F.sid)]
           IN IF session_missing(W, F.sid) THEN At(W, G, "init_clock")
              ELSE AfterInit(W, G)
      [] pc = "init_clock" ->      \* state.py:52, datetime.utcnow()
           At(W, [F EXCEPT !.now = now], "init_store")
      [] pc = "init_store" ->      \* state.py:30
           AfterInit(store_new_session(W, F.sid, F.now), F)
      [] pc = "get" ->             \* controller.py:93
           At(W, [F EXCEPT !.session = get_session(W, F.sid)], "append_in")
      [] pc = "append_in" ->       \* controller.py:96-100
           At([W EXCEPT !.heap[F.session].messages =
                  Append(@, [from |-> F.sender, text |-> F.text,
                             timestamp |-> F.timestamp])],
              [F EXCEPT !.site = "101"], "count_get")
      [] pc = "count_get" ->       \* state.py:86
           LET s == get_session(W, F.sid)
           IN IF s # 0
              THEN At(W, [F EXCEPT !.tmp = s, !.found = TRUE], "count_inc")
              ELSE AfterCount(W, [F EXCEPT !.found = FALSE])
      [] pc = "count_inc" ->       \* state.py:87-88
           AfterCount(add_one(W, F.tmp), [F EXCEPT !.increments = @ + 1])
      [] pc = "merge_get" ->       \* state.py:96-103
           LET s == get_session(W, F.sid)
               G == [F EXCEPT !.found = s # 0]
           IN IF merge_skipped(s, F.extracted)
                    \/ keys_to_merge(W, s, F.extracted) = <<>>
              THEN AfterMerge(W, G)
              ELSE At(W, [G EXCEPT !.merge_session = s,
                                   !.todo = keys_to_merge(W, s, F.extracted)],
                      "merge_key")
      [] pc = "merge_key" ->       \* state.py:105-108, one key
           LET W1 == merge_key(W, F.merge_session, F.extracted, Head(F.todo))
               G == [F EXCEPT !.todo = Tail(@)]
           IN IF G.todo = <<>> THEN AfterMerge(W1, G)
              ELSE At(W1, G, "merge_key")
      [] pc = "goal_27_upi" ->     \* probing_agent.py:27, intels.get("upiIds")
           LET r == [F.g EXCEPT !.upi27 = Truthy(Intels(W, F), "upiIds")]
           IN At(W, [F EXCEPT !.g = r],
                 IF r.upi27 THEN "goal_31_upi" ELSE "goal_27_bank")
      [] pc = "goal_27_bank" ->    \* probing_agent.py:27, "bankAccounts"
           LET r == [F.g EXCEPT
                       !.bank27 = Truthy(Intels(W, F), "bankAccounts")]
           IN IF r.bank27 THEN At(W, [F EXCEPT !.g = r], "goal_31_upi")
              ELSE AfterGoal(W, F, r)
      [] pc = "goal_31_upi" ->     \* probing_agent.py:31, intels.get("upiIds")
           LET r == [F.g EXCEPT !.upi31 = Truthy(Intels(W, F), "upiIds")]
           IN At(W, [F EXCEPT !.g = r],
                 IF r.upi31 THEN "goal_31_phone" ELSE "goal_35_upi")
      [] pc = "goal_31_phone" ->   \* probing_agent.py:31, "phoneNumbers"
           LET r == [F.g EXCEPT
                       !.phone31 = Truthy(Intels(W, F), "phoneNumbers")]
           IN IF r.phone31 THEN At(W, [F EXCEPT !.g = r], "goal_35_upi")
              ELSE AfterGoal(W, F, r)
      [] pc = "goal_35_upi" ->     \* probing_agent.py:35, intels.get("upiIds")
           AfterGoal(W, F,
                     [F.g EXCEPT !.upi35 = Truthy(Intels(W, F), "upiIds")])
      [] pc = "decide" ->          \* controller.py:126
           LET total == W.heap[F.session].total_messages
               G == [F EXCEPT
                       !.total_126 = total,
                       !.continuing = continue_honeypot(F.decision, total)]
           IN IF G.continuing THEN At(W, [G EXCEPT !.site = "129"], "sent_get")
              ELSE At(W, G, "fallback_reply")
      [] pc = "sent_get" ->        \* state.py:133
           At(W, [F EXCEPT !.tmp = get_session(W, F.sid)], "sent_flag")
      [] pc = "sent_flag" ->       \* state.py:134
           LET sent == callback_flag(W, F.tmp)
           IN IF F.site = "129"
              THEN At(W, [F EXCEPT !.sent_129 = sent, !.tmp = 0],
                      IF sent THEN "fallback_reply" ELSE "stop_total")
              ELSE IF sent
              THEN ReturnClosing(W, [F EXCEPT !.sent_134 = TRUE])
              ELSE At(W, [F EXCEPT !.tmp = 0], "ser_get")
      [] pc = "stop_total" ->      \* controller.py:133, the second argument
           At(W, [F EXCEPT !.total_133 = W.heap[F.session].total_messages],
              "stop_upi")
      [] pc = "stop_upi" ->        \* controller.py:70
           LET r == [F.s EXCEPT !.upi = Truthy(Intels(W, F), "upiIds")]
           IN At(W, [F EXCEPT !.s = r],
                 IF r.upi THEN "stop_phone" ELSE "stop_bank")
      [] pc = "stop_bank" ->       \* controller.py:71
           LET r == [F.s EXCEPT !.bank = Truthy(Intels(W, F), "bankAccounts")]
           IN At(W, [F EXCEPT !.s = r],
                 IF r.bank THEN "stop_phone" ELSE "stop_link")
      [] pc = "stop_link" ->       \* controller.py:72
           At(W, [F EXCEPT !.s.link = Truthy(Intels(W, F), "phishingLinks")],
              "stop_phone")
      [] pc = "stop_phone" ->      \* controller.py:75-86
           LET r == [F.s EXCEPT !.phone = Truthy(Intels(W, F), "phoneNumbers")]
               G == [F EXCEPT !.s = r, !.stop = stop_of(r, F.total_133)]
           IN IF G.stop THEN At(W, [G EXCEPT !.site = "134"], "sent_get")
              ELSE At(W, G, "goal_reply")
      [] pc = "ser_get" ->         \* state.py:115-117
           LET s == get_session(W, F.sid)
               G == [F EXCEPT !.tmp = s, !.found = s # 0, !.result = <<>>]
           IN IF s = 0 \/ intel_keys(W, s) = <<>> THEN AfterSerialise(W, G)
              ELSE At(W, [G EXCEPT !.todo = intel_keys(W, s)], "ser_key")
      [] pc = "ser_key" ->         \* state.py:119-122, list(values) of a key
           LET k == Head(F.todo)
               G == [F EXCEPT
                       !.todo = Tail(@),
                       !.result = SetItem(@, k,
                                     SetToSeq(W.heap[F.tmp].intels[k],
                                              a.order))]
           IN IF G.todo = <<>> THEN AfterSerialise(W, G)
              ELSE At(W, G, "ser_key")
      [] pc = "send_total" ->      \* controller.py:138
           At(W, [F EXCEPT !.total_138 = W.heap[F.session].total_messages],
              "send")
      [] pc = "send" ->            \* controller.py:243-260
           At(send_final_callback(W, F.sid, F.result, F.total_138, a.post_ok),
              [F EXCEPT !.dispatched = TRUE, !.post_ok = a.post_ok],
              "mark_get")
      [] pc = "mark_get" ->        \* state.py:127
           LET s == get_session(W, F.sid)
               G == [F EXCEPT !.tmp = s, !.found = s # 0]
           IN IF s # 0 THEN At(W, G, "mark_set")
              ELSE IF F.op = "handle_agent" THEN ReturnClosing(W, G)
              ELSE Returns(W, G)
      [] pc = "mark_set" ->        \* state.py:128-129
           IF F.op = "handle_agent"
           THEN ReturnClosing(set_callback_sent(W, F.tmp), F)
           ELSE Returns(set_callback_sent(W, F.tmp), F)
      [] pc = "goal_reply" ->      \* controller.py:148-155
           LET prompt == build_goal_prompt(F.next_goal,
                                           Context(W, F, GoalContext))
           IN AfterReply(W, [F EXCEPT !.branch = "goal", !.prompt = prompt,
                                      !.gen = a.gen,
                                      !.reply = generate_reply(prompt, a.gen)])
      [] pc = "fallback_reply" ->  \* controller.py:159-164
           LET prompt == build_goal_prompt("keep_engaged",
                                           Context(W, F, FallbackContext))
           IN AfterReply(W, [F EXCEPT !.branch = "fallback",
                                      !.prompt = prompt, !.gen = a.gen,
                                      !.reply = generate_reply(prompt, a.gen)])
      [] pc = "save_clock" ->      \* controller.py:173, datetime.utcnow()
           At(W, [F EXCEPT !.now = now], "save_append")
      [] pc = "save_append" ->     \* controller.py:170-174
           At([W EXCEPT !.heap[F.session].messages =
                  Append(@, [from |-> "agent", text |-> F.reply,
                             timestamp |-> F.now])],
              [F EXCEPT !.site = "175"], "count_get")
      [] pc = "update_check" ->    \* state.py:68
           IF session_missing(W, F.sid) THEN At(W, F, "init_check")
           ELSE AfterInit(W, F)
      [] pc = "update_has" ->      \* state.py:72
           LET has == F.todo[1][1] \in DOMAIN W.heap[get_session(W, F.sid)]
           IN At(W, [F EXCEPT !.has_key = has],
                 IF has THEN "update_type" ELSE "update_new")
      [] pc = "update_new" ->      \* state.py:73
           At([W EXCEPT !.heap[get_session(W, F.sid)] =
                  SetItem(@, F.todo[1][1], <<>>)],
              F, "update_type")
      [] pc = "update_type" ->     \* state.py:75
           IF F.todo[1][1] \notin DOMAIN W.heap[get_session(W, F.sid)]
           THEN Raises(W, F)
           ELSE At(W, [F EXCEPT !.list_value = is_list(F.todo[1][1])],
                   "update_write")
      [] pc = "update_write" ->    \* state.py:76 or 78
           LET s == get_session(W, F.sid)
               key == F.todo[1][1]
               value == F.todo[1][2]
           IN IF ~F.list_value
              THEN NextUpdate([W EXCEPT !.heap[s] = SetItem(@, key, value)], F)
              ELSE IF key \notin DOMAIN W.heap[s] THEN Raises(W, F)
              ELSE NextUpdate([W EXCEPT !.heap[s] =
                                  SetItem(@, key, Append(@[key], value))], F)

\* what the environment can answer at a program point
Answers(p, W, F, Gens, Posts) ==
    CASE p = "ser_key" ->
           {[NoAnswer EXCEPT !.order = o] :
               o \in Orders(W.heap[F.tmp].intels[Head(F.todo)])}
      [] p \in {"goal_reply", "fallback_reply"} ->
           {[NoAnswer EXCEPT !.gen = g] : g \in Gens}
      [] p = "send" -> {[NoAnswer EXCEPT !.post_ok = b] : b \in Posts}
      [] OTHER -> {NoAnswer}

\* the first program point of a function
Entry(op) ==
    CASE op \in {"handle_agent", "init_session"} -> "init_check"
      [] op = "increment_message_count" -> "count_get"
      [] op = "merge_intelligence" -> "merge_get"
      [] op = "mark_callback_sent" -> "mark_get"
      [] op = "get_serializable_intelligence" -> "ser_get"
      [] op = "update_session" -> "update_check"

(***************************************************************************)
(* State.                                                                  *)
(***************************************************************************)
VARIABLES
    sessions,   \* _sessions: session id -> index into heap, 0 if missing
    heap,       \* the session objects created so far
    posted,     \* the reports send_final_callback handed to requests.post
    clock,      \* datetime.utcnow()
    calls,      \* handle_agent calls started
    ops,        \* session-store functions called directly
    pc,         \* per thread: program point of its call, "idle" without one
    frame,      \* per thread: frame of its call
    last,       \* the frame of the call that returned last
    args,       \* the arguments of a function called on its own
    ret         \* what that function returned, NoRet before the call

vars ==
    <<sessions, heap, posted, clock, calls, ops, pc, frame, last, args, ret>>

World == [sessions |-> sessions, heap |-> heap, posted |-> posted]

SetWorld(W) ==
    /\ sessions' = W.sessions
    /\ heap' = W.heap
    /\ posted' = W.posted

NoArgs == [fn |-> None]
NoRet == [returned |-> FALSE]

\* the process after import: no session, no request, no call
InitProcess ==
    /\ sessions = [sid \in SessionIds |-> 0]
    /\ heap = <<>>
    /\ posted = <<>>
    /\ clock = 0
    /\ calls = 0
    /\ ops = 0
    /\ pc = [t \in Threads |-> "idle"]
    /\ frame = [t \in Threads |-> IdleFrame]
    /\ last = IdleFrame

Init ==
    /\ InitProcess
    /\ args = NoArgs
    /\ ret = NoRet

\* time passes
Tick ==
    /\ clock < MaxClock
    /\ clock' = clock + 1
    /\ UNCHANGED <<sessions, heap, posted, calls, ops, pc, frame, last, args,
                   ret>>

\* a call is taken by the first thread that has none
FirstFree(t) == pc[t] = "idle" /\ (t = "t2" => pc["t1"] # "idle")

\* what holds for a session when a call for it comes in
Seen(sid) ==
    [callback_sent |-> callback_flag(World, sessions[sid]),
     failed_post |-> \E i \in 1..Len(posted) :
                        posted[i].sessionId = sid /\ ~posted[i].delivered]

\* thread t is handed handle_agent(sid, message), the message stamped with
\* the time of its arrival
Start(t, sid, text) ==
    /\ FirstFree(t)
    /\ calls' = calls + 1
    /\ pc' = [pc EXCEPT ![t] = Entry("handle_agent")]
    /\ frame' = [frame EXCEPT
                    ![t] = [IdleFrame EXCEPT
                              !.op = "handle_agent", !.sid = sid,
                              !.sender = "scammer", !.text = text,
                              !.timestamp = clock, !.seen = Seen(sid)]]
    /\ UNCHANGED <<sessions, heap, posted, clock, ops, last, args, ret>>

\* thread t is handed a call of a store function
StoreCall(t, op, sid, extracted, updates) ==
    /\ FirstFree(t)
    /\ ops' = ops + 1
    /\ pc' = [pc EXCEPT ![t] = Entry(op)]
    /\ frame' = [frame EXCEPT
                    ![t] = [IdleFrame EXCEPT
                              !.op = op, !.sid = sid, !.seen = Seen(sid),
                              !.extracted = extracted, !.updates = updates,
                              !.todo = updates]]
    /\ UNCHANGED <<sessions, heap, posted, clock, calls, last, args, ret>>

\* One step of the call of thread t; the completion service answers with
\* one of Gens, the network with one of Posts.
StepThread(t, Gens, Posts) ==
    /\ pc[t] \notin {"idle", "done"}
    /\ \E a \in Answers(pc[t], World, frame[t], Gens, Posts) :
          \E r \in {Step(pc[t], World, frame[t], clock, a)} :
             /\ SetWorld(r.W)
             /\ pc' = [pc EXCEPT ![t] = r.pc]
             /\ frame' = [frame EXCEPT ![t] = r.F]
    /\ UNCHANGED <<clock, calls, ops, last, args, ret>>

\* the call of thread t returns to its caller
Return(t) ==
    /\ pc[t] = "done"
    /\ last' = frame[t]
    /\ pc' = [pc EXCEPT ![t] = "idle"]
    /\ frame' = [frame EXCEPT ![t] = IdleFrame]
    /\ UNCHANGED <<sessions, heap, posted, clock, calls, ops, args, ret>>

(***************************************************************************)
(* The service: requests of two sessions in flight at the same time, each  *)
(* with one of three texts (no signal, a payment request with a UPI id,    *)
(* the same with a phone number); the completion service and the network   *)
(* answer or fail.                                                         *)
(***************************************************************************)
ConcTexts == {"hello", "pay abc@paytm", "pay abc@paytm call 9876543210"}

Next ==
    \/ \E t \in Threads, sid \in SessionIds, text \in ConcTexts :
          calls < MaxCalls /\ Start(t, sid, text)
    \/ \E t \in Threads : StepThread(t, GenOutcomes, BOOLEAN)
    \/ \E t \in Threads : Return(t)

Spec == Init /\ [][Next]_vars

(***************************************************************************)
(* Long conversations: the requests of one session served one after        *)
(* another by one thread, with three texts (no signal, a scam with nothing *)
(* for the session to keep, a safe text with a UPI id and a phone number)  *)
(* and a generator that may answer blank in the session's first turn, so   *)
(* that total_messages reaches both parities.                              *)
(***************************************************************************)
LongSession == "s1"
LongThread == "t1"
LongTexts ==
    {"hello", "today suspended login otp bank", "pay abc@paytm call 9876543210"}
LongGens ==
    IF calls = 1
    THEN {[fail |-> FALSE, content |-> "what is this"],
          [fail |-> FALSE, content |-> " "]}
    ELSE {[fail |-> FALSE, content |-> "what is this"]}

NextLong ==
    \/ \E text \in LongTexts :
          calls < MaxLongCalls /\ Start(LongThread, LongSession, text)
    \/ StepThread(LongThread, LongGens, {TRUE})
    \/ Return(LongThread)

SpecLong == Init /\ [][NextLong]_vars

(***************************************************************************)
(* Three requests of one session, two of them in flight at a time, each    *)
(* with a payment request, a UPI id and a phone number.                    *)
(***************************************************************************)
RaceSession == "s1"
RaceTexts == {"pay abc@paytm call 9876543210"}
RaceGens == {[fail |-> FALSE, content |-> "what is this"]}

NextRace ==
    \/ \E t \in Threads, text \in RaceTexts :
          calls < MaxRaceCalls /\ Start(t, RaceSession, text)
    \/ \E t \in Threads : StepThread(t, RaceGens, {TRUE})
    \/ \E t \in Threads : Return(t)

SpecRace == Init /\ [][NextRace]_vars

(***************************************************************************)
(* The session store: the functions of core/state.py and handle_agent      *)
(* called for one session id from two threads, while time passes.          *)
(***************************************************************************)
StoreSession == "s1"
StoreTexts == {"pay abc@paytm call 9876543210"}
StoreGens == {[fail |-> FALSE, content |-> "what is this"]}
StoreExtracts ==
    { [upiIds |-> ListOf(<<"a@hdfc", "a@hdfc">>),
       phoneNumbers |-> ListOf(<<"9876543210">>)],
      [phishingLinks |-> Scalar("http://bit.ly/abc")],
      [upiIds |-> ListOf(<<>>), amounts |-> ListOf(<<"rs 500">>)],
      EmptyDict }
MergeInputs ==
    StoreExtracts \cup {TextAnalysis[text].extracted : text \in StoreTexts}

\* the dicts update_session is called with, as sequences of items: a flag,
\* a counter, a message for the log, a key no session has
StoreUpdates ==
    { << <<"callback_sent", FALSE>> >>,
      << <<"total_messages", 0>> >>,
      << <<"messages", [from |-> "agent", text |-> "hello",
                        timestamp |-> 0]>> >>,
      << <<"stage", "benign">> >> }

StoreOpen == ops + calls < MaxStoreOps

InitSession(t, sid) ==
    StoreOpen /\ StoreCall(t, "init_session", sid, EmptyDict, <<>>)

IncrementMessageCount(t, sid) ==
    StoreOpen /\ StoreCall(t, "increment_message_count", sid, EmptyDict, <<>>)

MergeIntelligence(t, sid, extracted) ==
    StoreOpen /\ StoreCall(t, "merge_intelligence", sid, extracted, <<>>)

MarkCallbackSent(t, sid) ==
    StoreOpen /\ StoreCall(t, "mark_callback_sent", sid, EmptyDict, <<>>)

GetSerializableIntelligence(t, sid) ==
    StoreOpen
        /\ StoreCall(t, "get_serializable_intelligence", sid, EmptyDict, <<>>)

UpdateSession(t, sid, updates) ==
    StoreOpen /\ StoreCall(t, "update_session", sid, EmptyDict, updates)

NextStore ==
    \/ Tick
    \/ \E t \in Threads : InitSession(t, StoreSession)
    \/ \E t \in Threads : IncrementMessageCount(t, StoreSession)
    \/ \E t \in Threads, extracted \in MergeInputs :
          MergeIntelligence(t, StoreSession, extracted)
    \/ \E t \in Threads : MarkCallbackSent(t, StoreSession)
    \/ \E t \in Threads : GetSerializableIntelligence(t, StoreSession)
    \/ \E t \in Threads, updates \in StoreUpdates :
          UpdateSession(t, StoreSession, updates)
    \/ \E t \in Threads, text \in StoreTexts :
          StoreOpen /\ Start(t, StoreSession, text)
    \/ \E t \in Threads : StepThread(t, StoreGens, {TRUE})
    \/ \E t \in Threads : Return(t)

SpecStore == Init /\ [][NextStore]_vars

(***************************************************************************)
(* The functions without side effects called on their own: the stop rule   *)
(* and the goal policy on every intelligence dict over the keys they read  *)
(* (a key may be missing, hold an empty set or hold a value), the risk     *)
(* scorer on every text.                                                   *)
(***************************************************************************)
PureKeys == {"upiIds", "bankAccounts", "phishingLinks", "phoneNumbers"}
SampleValue ==
    [ upiIds |-> "x@paytm", bankAccounts |-> "1234-5678-9012",
      phishingLinks |-> "http://bit.ly/abc", phoneNumbers |-> "9876543210" ]
PureIntels ==
    { [k \in DOMAIN b |-> IF b[k] THEN {SampleValue[k]} ELSE {}] :
        b \in UNION {[K -> BOOLEAN] : K \in SUBSET PureKeys} }
PureTexts == Texts \cup {"now now now now now now now now now now"}

PureArgs ==
    [fn : {"should_stop_extraction"}, intels : PureIntels,
     total_msgs : 0..MaxTotalMsgs]
    \cup [fn : {"select_next_goal"}, intels : PureIntels,
          payment_requested : BOOLEAN]
    \cup [fn : {"detect_intent"}, text : PureTexts]

InitPure ==
    /\ InitProcess
    /\ args \in PureArgs
    /\ ret = NoRet

Called(value) ==
    /\ ret = NoRet
    /\ ret' = [returned |-> TRUE, value |-> value]
    /\ UNCHANGED <<sessions, heap, posted, clock, calls, ops, pc, frame, last,
                   args>>

ShouldStopExtraction ==
    /\ args.fn = "should_stop_extraction"
    /\ Called(should_stop_extraction(args.intels, args.total_msgs))

SelectNextGoal ==
    /\ args.fn = "select_next_goal"
    /\ Called(select_next_goal(args.intels, args.payment_requested))

DetectIntent ==
    /\ args.fn = "detect_intent"
    /\ Called(detect_intent(args.text))

NextPure ==
    \/ ShouldStopExtraction
    \/ SelectNextGoal
    \/ DetectIntent

SpecPure == InitPure /\ [][NextPure]_vars

(***************************************************************************)
(* Properties.                                                             *)
(***************************************************************************)
Exists(sid) == sessions[sid] # 0
Session(sid) == heap[sessions[sid]]
PostedFor(sid) ==
    Cardinality({i \in 1..Len(posted) : posted[i].sessionId = sid})
PaymentAndContact(intels) ==
    /\ \/ Truthy(intels, "upiIds")
       \/ Truthy(intels, "bankAccounts")
       \/ Truthy(intels, "phishingLinks")
    /\ Truthy(intels, "phoneNumbers")
Returned == last.op = "handle_agent"
\* no call is in flight
Quiet == \A t \in Threads : pc[t] = "idle"
\* thread t takes a step of its call
Moves(t) ==
    /\ pc[t] \notin {"idle", "done"}
    /\ pc'[t] # pc[t] \/ frame'[t] # frame[t]
\* the session objects the store or a frame holds for a session id
ObjectsOf(sid) ==
    ({sessions[sid]}
        \cup UNION {{frame[t].session, frame[t].tmp, frame[t].merge_session} :
                       t \in {u \in Threads : frame[u].sid = sid}}) \ {0}
\* the stop rule of a returned call found a payment artifact and a phone
FoundPaymentAndContact(F) == (F.s.upi \/ F.s.bank \/ F.s.link) /\ F.s.phone

\* C1: when the requests of a session are served one after another,
\* send_final_callback is invoked at most once for the session, however many
\* messages follow and even though the stop rule would hold for them.
C1_AtMostOneCallback == \A sid \in SessionIds : PostedFor(sid) <= 1

C1_Witness ==
    /\ Quiet /\ Returned /\ ~last.dispatched /\ calls >= 3
    /\ PostedFor(last.sid) = 1
    /\ should_stop_extraction(Session(last.sid).intels,
                              Session(last.sid).total_messages)

\* C2: with two handle_agent calls of one session in flight, the report is
\* sent at most once, and no call is about to send it while callback_sent
\* is already true.
C2_AtMostOneCallbackInFlight ==
    /\ \A sid \in SessionIds : PostedFor(sid) <= 1
    /\ \A t \in Threads :
          pc[t] \in {"ser_get", "ser_key", "send_total", "send"}
              => ~callback_flag(World, sessions[frame[t].sid])

\* C3: two concurrent first requests of a session id create one session
\* object: every running call works on the object the store holds for its
\* id, and no more objects exist than ids are known.
C3_OneSessionObject ==
    /\ \A t \in Threads :
          frame[t].session # 0 => frame[t].session = sessions[frame[t].sid]
    /\ Len(heap) <= Cardinality({sid \in SessionIds : Exists(sid)})

\* C4 as stated: after a request, a payment artifact and a phone number in
\* the session's intelligence imply that the report was sent, whatever the
\* risk decision and the message count.
C4_StopOnIntelligenceAlways ==
    (Quiet /\ Returned /\ PaymentAndContact(Session(last.sid).intels))
        => Session(last.sid).callback_sent

\* C4 amended: handle_agent treats a turn as continuing when its risk
\* decision is scam or total_messages, read after the inbound message was
\* counted, is at most 8.  A continuing turn that finds callback_sent
\* false and whose stop rule finds a payment artifact and a phone number in
\* the session's intelligence dispatches the report for the session, unless
\* its second look at callback_sent finds the flag set meanwhile, and
\* returns the closing message; a turn that is not continuing evaluates no
\* stop rule and dispatches nothing, whatever the intelligence holds.
C4_StopOnIntelligenceWhenContinuing ==
    Returned =>
        /\ last.continuing <=>
              (last.decision = "scam" \/ last.total_126 <= ContinueCeiling)
        /\ (last.continuing /\ ~last.sent_129 /\ FoundPaymentAndContact(last))
              => /\ last.dispatched \/ last.sent_134
                 /\ last.dispatched => PostedFor(last.sid) >= 1
                 /\ last.reply = ClosingMessage
        /\ ~last.continuing => (~last.stop /\ ~last.dispatched)

C4_Witness ==
    /\ Returned /\ last.dispatched
    /\ last.decision = "safe" /\ last.total_126 = ContinueCeiling
    /\ FoundPaymentAndContact(last)
    /\ PaymentAndContact(Session(last.sid).intels)
    /\ Session(last.sid).callback_sent

\* C5 as stated: after a request that leaves total_messages at 14 or more,
\* the report was sent, whatever the risk decisions.
C5_CeilingStopsEverySession ==
    (Quiet /\ Returned /\ Session(last.sid).total_messages >= StopCeiling)
        => Session(last.sid).callback_sent

\* C5 amended: a continuing turn that finds callback_sent false and whose
\* stop rule is handed a total_messages of 14 or more dispatches the report
\* for the session, unless its second look at callback_sent finds the flag
\* set meanwhile, and returns the closing message, whatever intelligence
\* was collected; a turn whose decision is not scam and that reads a
\* total_messages of 14 or more is not continuing and dispatches nothing.
C5_CeilingStopsScamTurn ==
    Returned =>
        /\ (last.continuing /\ ~last.sent_129
                /\ last.total_133 >= StopCeiling)
              => /\ last.dispatched \/ last.sent_134
                 /\ last.dispatched => PostedFor(last.sid) >= 1
                 /\ last.reply = ClosingMessage
        /\ (last.decision # "scam" /\ last.total_126 >= StopCeiling)
              => (~last.continuing /\ ~last.dispatched)

C5_Witness ==
    /\ Returned /\ last.dispatched
    /\ last.decision = "scam" /\ last.total_133 = StopCeiling
    /\ ~FoundPaymentAndContact(last)
    /\ ~PaymentAndContact(Session(last.sid).intels)
    /\ Session(last.sid).callback_sent

\* C6: every reply text handle_agent returns (a non-empty one, generated or
\* the closing message) is in the log of its session as an agent message,
\* and the call has made two increments of total_messages, one for the
\* inbound message and one for the reply.
C6_ReplyAppended ==
    (Returned /\ last.reply # "") =>
        /\ \E i \in 1..Len(heap[last.session].messages) :
              /\ heap[last.session].messages[i].from = "agent"
              /\ heap[last.session].messages[i].text = last.reply
        /\ last.increments = 2

\* C7: whenever no call is between an append and the increment paired with
\* it, total_messages of every session equals the length of its message
\* log.
C7_CountEqualsLog ==
    (\A t \in Threads : pc[t] \notin {"count_get", "count_inc"}) =>
        \A sid \in SessionIds :
            Exists(sid) =>
                Session(sid).total_messages = Len(Session(sid).messages)

\* C8: callback_sent is false in a session that has just been created, and
\* once it is true for a session id no step of the session store or of
\* handle_agent makes it false again.
C8_CallbackSentPermanent ==
    [][ \A sid \in SessionIds :
          /\ (Exists(sid) /\ Session(sid).callback_sent)
                => (sessions'[sid] # 0 /\ heap'[sessions'[sid]].callback_sent)
          /\ (~Exists(sid) /\ sessions'[sid] # 0)
                => ~heap'[sessions'[sid]].callback_sent ]_vars

\* C9: init_session on an id that exists changes nothing: its membership
\* test finds the id, and the call ends without a write to the session's
\* messages, intelligence, total_messages, callback_sent or created_at, or
\* to any other session.
C9_InitSessionIdempotent ==
    [][ \A t \in Threads :
          (Moves(t) /\ pc[t] = "init_check" /\ Exists(frame[t].sid))
             => /\ pc'[t] \notin {"init_clock", "init_store"}
                /\ frame[t].op = "init_session" => pc'[t] = "done"
                /\ sessions' = sessions /\ heap' = heap /\ posted' = posted
      ]_vars

C9_Witness ==
    /\ last.op = "init_session" /\ last.found /\ Exists(last.sid)
    /\ Session(last.sid).messages # <<>>
    /\ Session(last.sid).created_at < clock

\* C10: for the session state at the return of a merge_intelligence call
\* and its extraction result E: merging E and merging it again gives what
\* merging it once gives, and merging E and another result gives the same
\* in either order.
C10_MergeIdempotentCommutative ==
    last.op = "merge_intelligence" =>
        LET sid == last.sid
            e1 == last.extracted
            once == merge_intelligence(World, sid, e1)
        IN /\ merge_intelligence(once, sid, e1) = once
           /\ \A e2 \in MergeInputs :
                 merge_intelligence(once, sid, e2) =
                 merge_intelligence(merge_intelligence(World, sid, e2),
                                    sid, e1)

C10_Witness ==
    /\ last.op = "merge_intelligence" /\ Exists(last.sid)
    /\ last.merge_session = sessions[last.sid]
    /\ DOMAIN Session(last.sid).intels = IntelKeys
    /\ Session(last.sid).intels["upiIds"] = {"a@hdfc", "abc@paytm"}
    /\ Session(last.sid).intels["phoneNumbers"] = {"9876543210"}

\* the values a result holds for a category, the set a session holds for it
ValuesOf(extracted, c) ==
    IF Falsy(extracted, c) THEN {}
    ELSE IF extracted[c].list THEN Range(extracted[c].items)
    ELSE {extracted[c].items[1]}
SetOf(intels, c) == IF c \in DOMAIN intels THEN intels[c] ELSE {}

\* C11: after merge_intelligence(id, E) on an existing session, every
\* category the extractor can return that is present and non-empty in E is
\* a category of the session that holds E's values (amounts, threatTypes,
\* impersonatedEntities, domains, domainImpersonation, upiProviders and
\* upiImpersonation included).
C11_MergeUnionEveryCategory ==
    (last.op = "merge_intelligence" /\ last.found) =>
        \A c \in ExtractorKeys :
            ~Falsy(last.extracted, c) =>
                ValuesOf(last.extracted, c)
                    \subseteq SetOf(Session(last.sid).intels, c)

\* the intelligence categories the data model names
DataModelCategories ==
    {"upiIds", "bankAccounts", "phishingLinks", "phoneNumbers", "amounts",
     "suspiciousKeywords", "threatTypes", "impersonatedEntities", "domains",
     "domainImpersonation", "upiImpersonation"}

\* C12: after every step, the intelligence mapping of every existing
\* session holds a (possibly empty) set for each category of the data model,
\* and no step adds a category key to a session or removes one.
C12_EveryCategoryPresent ==
    [][ \A sid \in SessionIds :
          sessions'[sid] # 0 =>
            /\ DataModelCategories \subseteq
                    DOMAIN heap'[sessions'[sid]].intels
            /\ Exists(sid) =>
                    DOMAIN heap'[sessions'[sid]].intels
                        = DOMAIN Session(sid).intels ]_vars

\* C13: handle_agent treats a turn as continuing exactly when the risk
\* decision of the inbound message is scam or total_messages, read after
\* the inbound message was counted, is strictly below 8, for every value
\* total_messages reaches (the even ones follow a turn with an empty reply).
C13_ContinuingIffBelowCeiling ==
    Returned =>
        (last.continuing <=>
            (last.decision = "scam" \/ last.total_126 < ContinueCeiling))

\* C14: for every intelligence mapping and every total_msgs,
\* should_stop_extraction returns true exactly when (upiIds, bankAccounts or
\* phishingLinks is non-empty, and phoneNumbers is non-empty) or
\* total_msgs >= 14: empty intelligence gives false at 13 and true at 14, a
\* UPI id with a phone number gives true at 2.
C14_StopRuleExactly ==
    (args.fn = "should_stop_extraction" /\ ret.returned) =>
        LET populated(k) == k \in DOMAIN args.intels /\ args.intels[k] # {}
        IN /\ ret.value <=>
                \/ /\ \E k \in {"upiIds", "bankAccounts", "phishingLinks"} :
                          populated(k)
                   /\ populated("phoneNumbers")
                \/ args.total_msgs >= 14
           /\ (DOMAIN args.intels = {} /\ args.total_msgs = 13)
                  => ret.value = FALSE
           /\ (DOMAIN args.intels = {} /\ args.total_msgs = 14)
                  => ret.value = TRUE
           /\ (populated("upiIds") /\ populated("phoneNumbers")
                  /\ args.total_msgs = 2) => ret.value = TRUE

\* the stop rule has answered no for an empty dict at 13
C14_Witness ==
    /\ args.fn = "should_stop_extraction" /\ ret.returned
    /\ DOMAIN args.intels = {} /\ args.total_msgs = 13
    /\ ret.value = FALSE

\* C15: select_next_goal answers for every input, by the first rule that
\* matches: ask_for_payment if a payment was requested and neither upiIds nor
\* bankAccounts is populated; else ask_for_phone if upiIds is populated and
\* phoneNumbers is not; else confirm_details if upiIds is populated; else
\* keep_engaged.  With a UPI id and no phone number the answer is
\* ask_for_phone whatever payment_requested and the other categories are.
C15_GoalPriorityOrder ==
    (args.fn = "select_next_goal" /\ ret.returned) =>
        LET populated(k) == k \in DOMAIN args.intels /\ args.intels[k] # {}
            rule1 == /\ args.payment_requested
                     /\ ~populated("upiIds") /\ ~populated("bankAccounts")
            rule2 == populated("upiIds") /\ ~populated("phoneNumbers")
            rule3 == populated("upiIds")
        IN /\ ret.value \in {"ask_for_payment", "ask_for_phone",
                              "confirm_details", "keep_engaged"}
           /\ rule1 => ret.value = "ask_for_payment"
           /\ (~rule1 /\ rule2) => ret.value = "ask_for_phone"
           /\ (~rule1 /\ ~rule2 /\ rule3) => ret.value = "confirm_details"
           /\ (~rule1 /\ ~rule2 /\ ~rule3) => ret.value = "keep_engaged"
           /\ rule2 => ret.value = "ask_for_phone"

\* the goal policy has asked for the phone number of a sender whose UPI id,
\* bank account and link are known and who requested a payment
C15_Witness ==
    /\ args.fn = "select_next_goal" /\ ret.returned
    /\ args.payment_requested
    /\ DOMAIN args.intels = {"upiIds", "bankAccounts", "phishingLinks"}
    /\ args.intels["upiIds"] # {} /\ args.intels["bankAccounts"] # {}
    /\ args.intels["phishingLinks"] # {}
    /\ ret.value = "ask_for_phone"

\* C16: for every text, the confidence detect_intent returns lies in [0, 1]
\* and the decision it returns is the bucket of that confidence: scam from
\* 0.7, uncertain from 0.4 to below 0.7, safe below 0.4 (hundredths here),
\* whatever the classifier, the urgency count and the length term add.
C16_DecisionIsBucketOfConfidence ==
    (args.fn = "detect_intent" /\ ret.returned) =>
        /\ 0 <= ret.value.confidence /\ ret.value.confidence <= 100
        /\ ret.value.decision =
              IF ret.value.confidence >= 70 THEN "scam"
              ELSE IF ret.value.confidence >= 40 THEN "uncertain"
              ELSE "safe"

\* C17: when the report's POST fails, the call that sent it still returns
\* status success with the closing message, and no handle_agent call that
\* comes in for the session after the failed POST sends the report again.
C17_CallbackFailureSwallowed ==
    /\ (Returned /\ last.dispatched /\ ~last.post_ok)
          => (last.status = "success" /\ last.reply = ClosingMessage)
    /\ \A t \in Threads : frame[t].seen.failed_post => ~frame[t].dispatched

\* the agent messages with the given text in a log, by position
AgentLines(messages, text) ==
    {i \in 1..Len(messages) :
        messages[i].from = "agent" /\ messages[i].text = text}

\* C18: when the reply generator fails during a request, the reply is the
\* fixed confusion line, the response has status success, the log of the
\* session holds the confusion line as an agent message after the inbound
\* message, the call has made two increments (one for each), and what the
\* call merged into the session's intelligence earlier is still there.
C18_GeneratorFailureRecovered ==
    (Returned /\ last.gen.fail) =>
        LET messages == heap[last.session].messages
        IN /\ last.status = "success"
           /\ last.reply = ConfusionLine
           /\ \E i \in 1..Len(messages) :
                 /\ messages[i] = [from |-> "scammer", text |-> last.text,
                                   timestamp |-> last.timestamp]
                 /\ \E j \in AgentLines(messages, ConfusionLine) : i < j
           /\ last.increments = 2
           /\ \A k \in IntelKeys :
                 ~Falsy(last.extracted, k) =>
                    /\ last.merge_session # 0
                    /\ ValuesOf(last.extracted, k)
                          \subseteq heap[last.merge_session].intels[k]

\* the generator has failed in a request whose text brought a UPI id,
\* while another request of the same session was in flight
C18_Witness ==
    /\ Returned /\ last.gen.fail /\ last.reply = ConfusionLine
    /\ last.text = "pay abc@paytm"
    /\ heap[last.merge_session].intels["upiIds"] = {"abc@paytm"}
    /\ \E t \in Threads : pc[t] # "idle" /\ frame[t].sid = last.sid
    /\ Len(heap[last.session].messages) >= 3

\* C19: increment_message_count, merge_intelligence and mark_callback_sent
\* called with a session id that was never initialised end in an error
\* instead of returning as if they had worked.
C19_UnknownIdIsError ==
    (/\ last.op \in {"increment_message_count", "merge_intelligence",
                     "mark_callback_sent"}
     /\ ~last.found) => last.status = "raised"

\* C20: the message log of a session is append-only and total_messages
\* never decreases: in every step the session stays, its log before the step
\* is a prefix of its log after it (same entries, same order) and its
\* total_messages does not go down.
C20_LogAppendOnly ==
    [][ \A sid \in SessionIds :
          Exists(sid) =>
            /\ sessions'[sid] # 0
            /\ Len(Session(sid).messages)
                    <= Len(heap'[sessions'[sid]].messages)
            /\ SubSeq(heap'[sessions'[sid]].messages, 1,
                      Len(Session(sid).messages)) = Session(sid).messages
            /\ Session(sid).total_messages
                    <= heap'[sessions'[sid]].total_messages ]_vars

\* C21: a request in which the stop rule fires hands the session's report
\* to the network itself before it returns, with the intelligence and the
\* count it read, returns the fixed closing message with status success,
\* builds no prompt and asks no reply of the generator.
C21_StopTurnDispatchesAndCloses ==
    (Returned /\ last.stop) =>
        /\ last.dispatched
        /\ \E i \in 1..Len(posted) :
              /\ posted[i].sessionId = last.sid
              /\ posted[i].extractedIntelligence = last.result
              /\ posted[i].totalMessagesExchanged = last.total_138
        /\ last.reply = ClosingMessage
        /\ last.status = "success"
        /\ last.branch = "stop"
        /\ last.prompt = NoPrompt /\ last.gen = NoGen

\* text.lower() contains one of the blocked phrases
HasBlockedPhrase(text) ==
    \E i \in 1..Len(BLOCKED_REPLY_PATTERNS) :
        ReplyContains(Lower(text), BLOCKED_REPLY_PATTERNS[i])

\* C22: the reply filter of generate_reply gives the fixed fallback line
\* exactly when the generated text (as generate_reply reads it, stripped)
\* contains a blocked phrase in any letter case, whatever surrounds the
\* phrase, and gives the text itself otherwise; the step in which the reply
\* is generated writes nothing to a session, and no agent message stored in
\* a session contains a blocked phrase.
C22_ReplyFilter ==
    [][ /\ \A t \in Threads :
              (Moves(t) /\ pc[t] \in {"goal_reply", "fallback_reply"}) =>
                 /\ sessions' = sessions /\ heap' = heap /\ posted' = posted
                 /\ ~frame'[t].gen.fail =>
                       frame'[t].reply =
                          IF HasBlockedPhrase(Strip(frame'[t].gen.content))
                          THEN FallbackLine
                          ELSE Strip(frame'[t].gen.content)
        /\ \A s \in 1..Len(heap') :
              \A i \in 1..Len(heap'[s].messages) :
                 heap'[s].messages[i].from = "agent"
                    => ~HasBlockedPhrase(heap'[s].messages[i].text) ]_vars

\* the generator has answered with a blocked phrase in capitals inside a
\* sentence, and the fallback line is what the session stores
C22_Witness ==
    /\ Returned /\ ~last.gen.fail
    /\ last.gen.content = "Please call Customer Care"
    /\ last.reply = FallbackLine
    /\ AgentLines(heap[last.session].messages, FallbackLine) # {}

\* C23: the goal of a request is computed from the session's intelligence
\* after the extraction of the request's own message was merged: a message
\* that references a payment and brings a UPI id gives ask_for_phone, or
\* confirm_details when a phone number is known too, never ask_for_payment.
C23_GoalAfterMerge ==
    (Returned /\ last.payment /\ ~Falsy(last.extracted, "upiIds")) =>
        /\ last.next_goal # "ask_for_payment"
        /\ last.next_goal \in {"ask_for_phone", "confirm_details"}

\* C24: a step of a handle_agent call for one session id leaves every
\* other session as it was (same object, messages, intelligence,
\* total_messages and callback_sent): it changes no session object but
\* those the store or a frame holds for its own id, none of which is held
\* for another id, and it sends no report in another session's name; a
\* report dispatched for one session never sets callback_sent of another.
C24_SessionsIndependent ==
    [][ \A t \in Threads :
          Moves(t) =>
             /\ \A i \in 1..Len(heap) :
                   i \notin ObjectsOf(frame[t].sid) => heap'[i] = heap[i]
             /\ \A sid \in SessionIds \ {frame[t].sid} :
                   /\ sessions'[sid] = sessions[sid]
                   /\ ObjectsOf(sid) \cap ObjectsOf(frame[t].sid) = {}
                   /\ \A i \in Len(posted) + 1..Len(posted') :
                         posted'[i].sessionId # sid ]_vars

\* a report has been dispatched for one session while a request of another
\* session, which has a conversation of its own, is in flight
C24_Witness ==
    /\ Returned /\ last.dispatched
    /\ \E t \in Threads :
          /\ pc[t] = "save_append" /\ frame[t].sid # last.sid
          /\ Len(heap[frame[t].session].messages) = 1
          /\ ~heap[frame[t].session].callback_sent
          /\ PostedFor(frame[t].sid) = 0

\* C25: a handle_agent call that comes in for a session whose callback_sent
\* is true evaluates no stop rule, sends nothing and does not return the
\* closing message.
C25_AfterCallbackKeepEngaged ==
    \A t \in Threads :
        (frame[t].op = "handle_agent" /\ frame[t].seen.callback_sent) =>
            /\ pc[t] \notin {"stop_total", "stop_upi", "stop_bank",
                             "stop_link", "stop_phone"}
            /\ ~frame[t].stop /\ ~frame[t].dispatched
            /\ frame[t].reply # ClosingMessage

\* C26: session intelligence only grows: in every step each session stays
\* and each category keeps the values it had, so a value once present is
\* present after any later sequence of init_session, merge_intelligence,
\* get_serializable_intelligence and handle_agent calls.
C26_IntelligenceOnlyGrows ==
    [][ \A sid \in SessionIds :
          Exists(sid) =>
            /\ sessions'[sid] # 0
            /\ \A k \in DOMAIN Session(sid).intels :
                  Session(sid).intels[k]
                     \subseteq SetOf(heap'[sessions'[sid]].intels, k) ]_vars

=============================================================================
